---------------------------- MODULE Spec2Model ----------------------------
(***************************************************************************)
(* Model of source_acceptance_test/config.py: the pydantic (v1) models of  *)
(* the acceptance-test configuration, their cross-field validators and the *)
(* legacy-format adapter of the root Config.                               *)
(*                                                                         *)
(* Raw and validated values are tagged tuples <<kind, payload>>.  A str is *)
(* a sequence of one-character strings, so that the semantic-version       *)
(* pattern can be matched character by character; a dict is a function     *)
(* whose DOMAIN is the set of keys present.                                *)
(***************************************************************************)
EXTENDS Integers, Sequences, FiniteSets, TLC

VARIABLES
    ALLOW_LEGACY_CONFIG, \* the module-level toggle
    cls,                 \* the model class under construction
    heap,                \* dict objects by reference; 1 is the caller's document
    input,               \* reference the field validation reads (0: not bound yet)
    migrated_config,     \* local of migrate_legacy_to_current_config (0: unbound)
    todo,                \* items of legacy_config["tests"] still to iterate
    pc,                  \* position in the construction
    idx,                 \* index of the next field to validate
    values,              \* validate_model: fields validated so far
    errors,              \* validate_model: locations of the errors so far
    warnings,            \* number of records emitted by logging.warn
    events,              \* history of the construction's steps
    given,               \* the caller's document as it was passed in (by value)
    result               \* the constructed object, or None

vars == <<ALLOW_LEGACY_CONFIG, cls, heap, input, migrated_config, todo, pc, idx,
          values, errors, warnings, events, given, result>>

---------------------------------------------------------------------------
(* Values *)

NoneV == <<"none">>
VStr(s) == <<"str", s>>
VInt(n) == <<"int", n>>
VBool(b) == <<"bool", b>>
VList(q) == <<"list", q>>
VDict(d) == <<"dict", d>>
VPath(s) == <<"path", s>>
VSet(S) == <<"set", S>>
Kind(v) == v[1]
Payload(v) == v[2]
EmptyDict == [k \in {} |-> NoneV]

Ok(v) == [ok |-> TRUE, v |-> v]
Err == [ok |-> FALSE, v |-> NoneV]

\* Python truthiness of a value
Truthy(v) ==
    CASE Kind(v) = "none" -> FALSE
      [] Kind(v) = "bool" -> Payload(v)
      [] Kind(v) = "int" -> Payload(v) # 0
      [] Kind(v) = "str" -> Len(Payload(v)) > 0
      [] Kind(v) = "path" -> TRUE
      [] Kind(v) = "list" -> Len(Payload(v)) > 0
      [] Kind(v) = "set" -> Payload(v) # {}
      [] Kind(v) = "dict" -> DOMAIN Payload(v) # {}

\* String literals of the source, as character sequences
s_latest == <<"l", "a", "t", "e", "s", "t">>
s_config_json == <<"s", "e", "c", "r", "e", "t", "s", "/", "c", "o", "n", "f", "i", "g", ".", "j", "s", "o", "n">>
s_spec_json == <<"s", "e", "c", "r", "e", "t", "s", "/", "s", "p", "e", "c", ".", "j", "s", "o", "n">>
s_succeed == <<"s", "u", "c", "c", "e", "e", "d">>
s_failed == <<"f", "a", "i", "l", "e", "d">>
s_exception == <<"e", "x", "c", "e", "p", "t", "i", "o", "n">>
s_high == <<"h", "i", "g", "h">>
s_low == <<"l", "o", "w">>

---------------------------------------------------------------------------
(* The semantic-version pattern and pydantic's use of it *)

Digit == {"0", "1", "2", "3", "4", "5", "6", "7", "8", "9"}
NonZeroDigit == Digit \ {"0"}
Letter == {"a", "b", "c", "d", "e", "f", "g", "h", "i", "j", "k", "l", "m",
           "n", "o", "p", "q", "r", "s", "t", "u", "v", "w", "x", "y", "z"}
WordChar == Letter \cup Digit \cup {"_"}

\* ends q of the matches of (0|(?:[1-9]\d*)) that start after position p
NumEnds(s, p) ==
    {q \in (p + 1)..Len(s) :
        \/ q = p + 1 /\ s[q] = "0"
        \/ s[p + 1] \in NonZeroDigit /\ \A i \in (p + 2)..q : s[i] \in Digit}

\* ends of the matches of \.(0|(?:[1-9]\d*)) that start after position p
DotNumEnds(s, p) ==
    IF p + 1 <= Len(s) /\ s[p + 1] = "." THEN NumEnds(s, p + 1) ELSE {}

\* ends of the matches of \-([\w][\w\.\-_]*) that start after position p
PreEnds(s, p) ==
    {q \in (p + 2)..Len(s) :
        /\ s[p + 1] = "-"
        /\ s[p + 2] \in WordChar
        /\ \A i \in (p + 3)..q : s[i] \in WordChar \cup {".", "-", "_"}}

\* ends of the matches of the whole SEMVER_REGEX that start at the beginning:
\* major, then optionally ( .minor, optionally .patch, optionally -prerelease )
SEMVER_REGEX(s) ==
    UNION {{p} \cup UNION {UNION {{a} \cup PreEnds(s, a) :
                                    a \in {m} \cup DotNumEnds(s, m)} :
                           m \in DotNumEnds(s, p)} :
           p \in NumEnds(s, 0)}

\* pydantic v1, ConstrainedStr.validate: "if not cls.regex.match(value): raise";
\* re.match anchors the pattern at the start of the string only
regex_match(s) == SEMVER_REGEX(s) # {}

---------------------------------------------------------------------------
(* pydantic's validators of the primitive types *)

DigitValue(c) ==
    CASE c = "0" -> 0 [] c = "1" -> 1 [] c = "2" -> 2 [] c = "3" -> 3 [] c = "4" -> 4
      [] c = "5" -> 5 [] c = "6" -> 6 [] c = "7" -> 7 [] c = "8" -> 8 [] c = "9" -> 9

DigitChar(n) ==
    CASE n = 0 -> "0" [] n = 1 -> "1" [] n = 2 -> "2" [] n = 3 -> "3" [] n = 4 -> "4"
      [] n = 5 -> "5" [] n = 6 -> "6" [] n = 7 -> "7" [] n = 8 -> "8" [] n = 9 -> "9"

RECURSIVE NatChars(_)
\* str(n) of a natural number
NatChars(n) == IF n < 10 THEN <<DigitChar(n)>> ELSE Append(NatChars(n \div 10), DigitChar(n % 10))

\* str(n) of an int
IntChars(n) == IF n < 0 THEN <<"-">> \o NatChars(-n) ELSE NatChars(n)

RECURSIVE CharsNat(_)
\* int(s) of a non-empty string of decimal digits
CharsNat(s) ==
    IF Len(s) = 1 THEN DigitValue(s[1])
    ELSE 10 * CharsNat(SubSeq(s, 1, Len(s) - 1)) + DigitValue(s[Len(s)])

IsDigits(s) == Len(s) > 0 /\ \A i \in 1..Len(s) : s[i] \in Digit

\* str_validator: a str as it is; an int (a bool is one) through str()
str_validator(v) ==
    CASE Kind(v) = "str" -> Ok(v)
      [] Kind(v) = "int" -> Ok(VStr(IntChars(Payload(v))))
      [] Kind(v) = "bool" -> Ok(VStr(IF Payload(v) THEN <<"T", "r", "u", "e">>
                                                 ELSE <<"F", "a", "l", "s", "e">>))
      [] OTHER -> Err

\* int_validator: an int as it is; anything else through int()
int_validator(v) ==
    CASE Kind(v) = "int" -> Ok(v)
      [] Kind(v) = "bool" -> Ok(VInt(IF Payload(v) THEN 1 ELSE 0))
      [] Kind(v) = "str" ->
            LET s == Payload(v)
            IN  IF IsDigits(s) THEN Ok(VInt(CharsNat(s)))
                ELSE IF Len(s) > 1 /\ s[1] \in {"-", "+"} /\ IsDigits(Tail(s))
                     THEN Ok(VInt((IF s[1] = "-" THEN -1 ELSE 1) * CharsNat(Tail(s))))
                     ELSE Err
      [] OTHER -> Err

BOOL_FALSE == {<<"0">>, <<"o", "f", "f">>, <<"f">>, <<"f", "a", "l", "s", "e">>, <<"n">>, <<"n", "o">>}
BOOL_TRUE == {<<"1">>, <<"o", "n">>, <<"t">>, <<"t", "r", "u", "e">>, <<"y">>, <<"y", "e", "s">>}

\* bool_validator
bool_validator(v) ==
    CASE Kind(v) = "bool" -> Ok(v)
      [] Kind(v) = "int" -> IF Payload(v) \in {0, 1} THEN Ok(VBool(Payload(v) = 1)) ELSE Err
      [] Kind(v) = "str" -> IF Payload(v) \in BOOL_TRUE THEN Ok(VBool(TRUE))
                            ELSE IF Payload(v) \in BOOL_FALSE THEN Ok(VBool(FALSE))
                            ELSE Err
      [] OTHER -> Err

\* path_validator: Path(v) of a str
path_validator(v) ==
    CASE Kind(v) = "str" -> Ok(VPath(Payload(v)))
      [] Kind(v) = "path" -> Ok(v)
      [] OTHER -> Err

\* a str field declared with Field(regex=SEMVER_REGEX, ...)
semver_validator(v) ==
    LET r == str_validator(v)
    IN  IF r.ok /\ regex_match(Payload(r.v)) THEN r ELSE Err

\* an int field declared with Field(ge=0)
int_ge0_validator(v) ==
    LET r == int_validator(v)
    IN  IF r.ok /\ Payload(r.v) >= 0 THEN r ELSE Err

\* a field whose type is an Enum with the values E
enum_validator(E, v) ==
    IF Kind(v) = "str" /\ Payload(v) \in E THEN Ok(v) ELSE Err

---------------------------------------------------------------------------
(* The model classes: their fields, in declaration order *)

VObj(c, d) == <<"obj", c, d>>
ObjClass(v) == v[2]
ObjFields(v) == v[3]

T_str == <<"str">>
T_semver == <<"semver">>
T_int_ge0 == <<"int_ge0">>
T_bool == <<"bool">>
T_path == <<"path">>
T_enum(E) == <<"enum", E>>
T_opt(t) == <<"opt", t>>
T_list(t) == <<"list", t>>
T_set(t) == <<"set", t>>
T_mapping(t) == <<"mapping", t>>
T_model(c) == <<"model", c>>

\* a field: required, or with a default; always: its validators run on the default too
F(name, type, required, default, always) ==
    [name |-> name, type |-> type, required |-> required, default |-> default,
     always |-> always]

\* the shared Field objects of the top of the file
config_path == F("config_path", T_str, FALSE, VStr(s_config_json), FALSE)
spec_path == F("spec_path", T_str, FALSE, VStr(s_spec_json), FALSE)
configured_catalog_path == F("configured_catalog_path", T_opt(T_str), FALSE, NoneV, FALSE)
timeout_seconds == F("timeout_seconds", T_opt(T_int_ge0), FALSE, NoneV, FALSE)

\* BackwardCompatibilityTestsConfig(): the default of the fields of that type
BackwardCompatibilityDefault ==
    VObj("BackwardCompatibilityTestsConfig",
         [previous_connector_version |-> VStr(s_latest), disable_for_version |-> NoneV])

backward_compatibility_tests_config ==
    F("backward_compatibility_tests_config", T_model("BackwardCompatibilityTestsConfig"),
      FALSE, BackwardCompatibilityDefault, FALSE)

Categories == {"spec", "connection", "discovery", "basic_read", "full_refresh", "incremental"}

\* the type parameter of each field of AcceptanceTestConfigurations
TestConfigT(cat) ==
    CASE cat = "spec" -> "SpecTestConfig"
      [] cat = "connection" -> "ConnectionTestConfig"
      [] cat = "discovery" -> "DiscoveryTestConfig"
      [] cat = "basic_read" -> "BasicReadTestConfig"
      [] cat = "full_refresh" -> "FullRefreshConfig"
      [] cat = "incremental" -> "IncrementalConfig"

TestConfigs == {TestConfigT(cat) : cat \in Categories}

\* the concrete class GenericTestConfig[T]
GenericTestConfig(T) ==
    CASE T = "SpecTestConfig" -> "GenericTestConfig[SpecTestConfig]"
      [] T = "ConnectionTestConfig" -> "GenericTestConfig[ConnectionTestConfig]"
      [] T = "DiscoveryTestConfig" -> "GenericTestConfig[DiscoveryTestConfig]"
      [] T = "BasicReadTestConfig" -> "GenericTestConfig[BasicReadTestConfig]"
      [] T = "FullRefreshConfig" -> "GenericTestConfig[FullRefreshConfig]"
      [] T = "IncrementalConfig" -> "GenericTestConfig[IncrementalConfig]"

GenericClasses ==
    {"GenericTestConfig[SpecTestConfig]", "GenericTestConfig[ConnectionTestConfig]",
     "GenericTestConfig[DiscoveryTestConfig]", "GenericTestConfig[BasicReadTestConfig]",
     "GenericTestConfig[FullRefreshConfig]", "GenericTestConfig[IncrementalConfig]"}

IsGeneric(c) == c \in GenericClasses

\* the T of GenericTestConfig[T]
ParamOf(c) ==
    CASE c = "GenericTestConfig[SpecTestConfig]" -> "SpecTestConfig"
      [] c = "GenericTestConfig[ConnectionTestConfig]" -> "ConnectionTestConfig"
      [] c = "GenericTestConfig[DiscoveryTestConfig]" -> "DiscoveryTestConfig"
      [] c = "GenericTestConfig[BasicReadTestConfig]" -> "BasicReadTestConfig"
      [] c = "GenericTestConfig[FullRefreshConfig]" -> "FullRefreshConfig"
      [] c = "GenericTestConfig[IncrementalConfig]" -> "IncrementalConfig"

Fields(c) ==
    CASE IsGeneric(c) ->
            <<F("bypass_reason", T_opt(T_str), FALSE, NoneV, FALSE),
              F("tests", T_opt(T_list(T_model(ParamOf(c)))), FALSE, NoneV, TRUE)>>
      [] c = "BackwardCompatibilityTestsConfig" ->
            <<F("previous_connector_version", T_semver, FALSE, VStr(s_latest), FALSE),
              F("disable_for_version", T_opt(T_semver), FALSE, NoneV, FALSE)>>
      [] c = "SpecTestConfig" ->
            <<spec_path, config_path, timeout_seconds, backward_compatibility_tests_config>>
      [] c = "ConnectionTestConfig" ->
            <<config_path,
              F("status", T_enum({s_succeed, s_failed, s_exception}), FALSE, VStr(s_succeed), FALSE),
              timeout_seconds>>
      [] c = "DiscoveryTestConfig" ->
            <<config_path, timeout_seconds, backward_compatibility_tests_config>>
      [] c = "ExpectedRecordsConfig" ->
            <<F("path", T_path, TRUE, NoneV, FALSE),
              F("extra_fields", T_bool, FALSE, VBool(FALSE), FALSE),
              F("exact_order", T_bool, FALSE, VBool(FALSE), TRUE),
              F("extra_records", T_bool, FALSE, VBool(TRUE), TRUE)>>
      [] c = "BasicReadTestConfig" ->
            <<config_path, configured_catalog_path,
              F("empty_streams", T_set(T_str), FALSE, VSet({}), FALSE),
              F("expect_records", T_opt(T_model("ExpectedRecordsConfig")), FALSE, NoneV, FALSE),
              F("validate_schema", T_bool, FALSE, VBool(TRUE), FALSE),
              F("validate_data_points", T_bool, FALSE, VBool(FALSE), FALSE),
              F("expect_trace_message_on_failure", T_bool, FALSE, VBool(TRUE), FALSE),
              timeout_seconds>>
      [] c = "FullRefreshConfig" ->
            <<config_path, configured_catalog_path, timeout_seconds,
              F("ignored_fields", T_opt(T_mapping(T_list(T_str))), FALSE, NoneV, FALSE)>>
      [] c = "IncrementalConfig" ->
            <<config_path, configured_catalog_path,
              F("cursor_paths", T_opt(T_mapping(T_list(T_str))), FALSE, NoneV, FALSE),
              F("future_state_path", T_opt(T_str), FALSE, NoneV, FALSE),
              timeout_seconds,
              F("threshold_days", T_int_ge0, FALSE, VInt(0), FALSE),
              F("skip_comprehensive_incremental_tests", T_opt(T_bool), FALSE, VBool(FALSE), FALSE)>>
      [] c = "AcceptanceTestConfigurations" ->
            <<F("spec", T_opt(T_model(GenericTestConfig("SpecTestConfig"))), FALSE, NoneV, FALSE),
              F("connection", T_opt(T_model(GenericTestConfig("ConnectionTestConfig"))), FALSE, NoneV, FALSE),
              F("discovery", T_opt(T_model(GenericTestConfig("DiscoveryTestConfig"))), FALSE, NoneV, FALSE),
              F("basic_read", T_opt(T_model(GenericTestConfig("BasicReadTestConfig"))), FALSE, NoneV, FALSE),
              F("full_refresh", T_opt(T_model(GenericTestConfig("FullRefreshConfig"))), FALSE, NoneV, FALSE),
              F("incremental", T_opt(T_model(GenericTestConfig("IncrementalConfig"))), FALSE, NoneV, FALSE)>>
      [] c = "Config" ->
            <<F("connector_image", T_str, TRUE, NoneV, FALSE),
              F("acceptance_tests", T_model("AcceptanceTestConfigurations"), TRUE, NoneV, FALSE),
              F("base_path", T_opt(T_str), FALSE, NoneV, FALSE),
              F("test_strictness_level", T_opt(T_enum({s_high, s_low})), FALSE, VStr(s_low), FALSE)>>

FieldNames(c) == {Fields(c)[i].name : i \in 1..Len(Fields(c))}

\* Config.extra of each class: BaseConfig and ExpectedRecordsConfig forbid
\* extra fields; GenericTestConfig derives from GenericModel and sets nothing,
\* which leaves pydantic's default
GenericExtra == "ignore"

Extra(c) == IF IsGeneric(c) THEN GenericExtra ELSE "forbid"

---------------------------------------------------------------------------
(* The validators of the classes *)

\* ExpectedRecordsConfig.validate_exact_order
validate_exact_order(exact_order, vals) ==
    IF "extra_fields" \in DOMAIN vals /\ Truthy(vals["extra_fields"]) /\ ~Truthy(exact_order)
    THEN Err
    ELSE Ok(exact_order)

\* fault: validate_extra_records without its check
validate_extra_records_unchecked(extra_records, vals) == Ok(extra_records)

\* ExpectedRecordsConfig.validate_extra_records
validate_extra_records(extra_records, vals) ==
    IF "extra_fields" \in DOMAIN vals /\ Truthy(vals["extra_fields"]) /\ Truthy(extra_records)
    THEN Err
    ELSE Ok(extra_records)

\* values.get(key)
Get(vals, key) == IF key \in DOMAIN vals THEN vals[key] ELSE NoneV

\* GenericTestConfig.no_bypass_reason_when_tests_is_set
no_bypass_reason_when_tests_is_set(tests, vals) ==
    IF Truthy(tests) /\ Truthy(Get(vals, "bypass_reason"))
    THEN Err
    ELSE Ok(tests)

\* the @validator functions of field name of class c, applied to the value v
ClassValidators(c, name, v, vals) ==
    CASE c = "ExpectedRecordsConfig" /\ name = "exact_order" -> validate_exact_order(v, vals)
      [] c = "ExpectedRecordsConfig" /\ name = "extra_records" -> validate_extra_records(v, vals)
      [] IsGeneric(c) /\ name = "tests" -> no_bypass_reason_when_tests_is_set(v, vals)
      [] OTHER -> Ok(v)

---------------------------------------------------------------------------
(* pydantic's validation of a value against a type, and of a model *)

RECURSIVE Validate(_, _), ValidateModel(_, _), RunFields(_, _, _, _)

\* the entries of a list (tuple, set) validated one by one
ValidateEach(t, q) == [i \in 1..Len(q) |-> Validate(t, q[i])]

Validate(t, v) ==
    CASE t[1] = "opt" -> IF Kind(v) = "none" THEN Ok(NoneV) ELSE Validate(t[2], v)
      [] t[1] = "str" -> str_validator(v)
      [] t[1] = "semver" -> semver_validator(v)
      [] t[1] = "int_ge0" -> int_ge0_validator(v)
      [] t[1] = "bool" -> bool_validator(v)
      [] t[1] = "path" -> path_validator(v)
      [] t[1] = "enum" -> enum_validator(t[2], v)
      [] t[1] = "list" ->
            IF Kind(v) # "list" THEN Err
            ELSE LET r == ValidateEach(t[2], Payload(v))
                 IN  IF \A i \in DOMAIN r : r[i].ok
                     THEN Ok(VList([i \in DOMAIN r |-> r[i].v]))
                     ELSE Err
      [] t[1] = "set" ->
            IF Kind(v) # "list" THEN Err
            ELSE LET r == ValidateEach(t[2], Payload(v))
                 IN  IF \A i \in DOMAIN r : r[i].ok
                     THEN Ok(VSet({r[i].v : i \in DOMAIN r}))
                     ELSE Err
      [] t[1] = "mapping" ->
            IF Kind(v) # "dict" THEN Err
            ELSE LET d == Payload(v)
                     r == [k \in DOMAIN d |-> Validate(t[2], d[k])]
                 IN  IF \A k \in DOMAIN r : r[k].ok
                     THEN Ok(VDict([k \in DOMAIN r |-> r[k].v]))
                     ELSE Err
      [] t[1] = "model" ->
            CASE Kind(v) = "dict" -> ValidateModel(t[2], Payload(v))
              [] Kind(v) = "obj" -> IF ObjClass(v) = t[2] THEN Ok(v) ELSE Err
              [] OTHER -> Err

\* ModelField.validate: the type's validators, then the class's
ValidateField(c, f, v, vals) ==
    LET r == Validate(f.type, v)
    IN  IF r.ok THEN ClassValidators(c, f.name, r.v, vals) ELSE Err

\* validate_model, one turn of its loop over the fields: st is (values, errors)
StepField(c, f, raw, st) ==
    LET put(r) == IF r.ok
                  THEN [values |-> (f.name :> r.v) @@ st.values, errors |-> st.errors]
                  ELSE [values |-> st.values, errors |-> st.errors \cup {f.name}]
    IN  IF f.name \in DOMAIN raw THEN put(ValidateField(c, f, raw[f.name], st.values))
        ELSE IF f.required THEN put(Err)
        ELSE IF f.always THEN put(ValidateField(c, f, f.default, st.values))
        ELSE put(Ok(f.default))

RunFields(c, raw, st, i) ==
    IF i > Len(Fields(c)) THEN st
    ELSE RunFields(c, raw, StepField(c, Fields(c)[i], raw, st), i + 1)

\* validate_model, after the loop: the names of the input that are no field
ExtraErrors(c, raw) ==
    IF Extra(c) = "forbid" THEN DOMAIN raw \ FieldNames(c) ELSE {}

\* cls(**raw): the object, or a ValidationError
ValidateModel(c, raw) ==
    LET st == RunFields(c, raw, [values |-> EmptyDict, errors |-> {}], 1)
    IN  IF st.errors \cup ExtraErrors(c, raw) = {} THEN Ok(VObj(c, st.values)) ELSE Err

---------------------------------------------------------------------------
(* Config: the legacy format and its adapter *)

\* fault: is_legacy that also wants acceptance_tests to be missing
is_legacy_without_current(config) ==
    "tests" \in DOMAIN config /\ "acceptance_tests" \notin DOMAIN config

\* Config.is_legacy
is_legacy(config) == "tests" \in DOMAIN config

\* fault: the condition of legacy_format_adapter without the toggle
AdapterMigratesAlways == "tests" \in DOMAIN heap[1]

\* the condition of legacy_format_adapter
AdapterMigrates == ALLOW_LEGACY_CONFIG /\ is_legacy(heap[1])

\* d without key k (dict.pop, del)
Without(d, k) == [x \in DOMAIN d \ {k} |-> d[x]]

\* d with d[k] = v
With(d, k, v) == (k :> v) @@ d

\* legacy_format_adapter, the condition holds: on to the warning
AdapterLegacy ==
    /\ pc = "adapter"
    /\ AdapterMigrates
    /\ pc' = "warn"
    /\ events' = Append(events, "adapter")
    /\ UNCHANGED <<ALLOW_LEGACY_CONFIG, cls, heap, input, migrated_config, todo, idx,
                   values, errors, warnings, given, result>>

\* legacy_format_adapter, the else branch: return values
AdapterReturnsValues ==
    /\ pc = "adapter"
    /\ ~AdapterMigrates
    /\ input' = 1
    /\ pc' = "fields"
    /\ events' = Append(events, "adapter")
    /\ UNCHANGED <<ALLOW_LEGACY_CONFIG, cls, heap, migrated_config, todo, idx,
                   values, errors, warnings, given, result>>

\* fault: legacy_format_adapter without its logging.warn(...)
LogWarnSkipped ==
    /\ pc = "warn"
    /\ pc' = "deepcopy"
    /\ UNCHANGED <<ALLOW_LEGACY_CONFIG, cls, heap, input, migrated_config, todo, idx,
                   values, errors, warnings, events, given, result>>

\* logging.warn(...)
LogWarn ==
    /\ pc = "warn"
    /\ warnings' = warnings + 1
    /\ pc' = "deepcopy"
    /\ events' = Append(events, "warn")
    /\ UNCHANGED <<ALLOW_LEGACY_CONFIG, cls, heap, input, migrated_config, todo, idx,
                   values, errors, given, result>>

\* fault: migrated_config = legacy_config, the same object
MigrateAliases ==
    /\ pc = "deepcopy"
    /\ migrated_config' = 1
    /\ pc' = "pop"
    /\ events' = Append(events, "migrate")
    /\ UNCHANGED <<ALLOW_LEGACY_CONFIG, cls, heap, input, todo, idx, values, errors,
                   warnings, given, result>>

\* migrated_config = deepcopy(legacy_config): a new object, 2
MigrateDeepcopy ==
    /\ pc = "deepcopy"
    /\ heap' = [heap EXCEPT ![2] = heap[1]]
    /\ migrated_config' = 2
    /\ pc' = "pop"
    /\ events' = Append(events, "migrate")
    /\ UNCHANGED <<ALLOW_LEGACY_CONFIG, cls, input, todo, idx, values, errors,
                   warnings, given, result>>

\* fault: the migration without its pop("tests")
MigratePopSkipped ==
    /\ pc = "pop"
    /\ pc' = "new"
    /\ UNCHANGED <<ALLOW_LEGACY_CONFIG, cls, heap, input, migrated_config, todo, idx,
                   values, errors, warnings, events, given, result>>

\* migrated_config.pop("tests")
MigratePop ==
    /\ pc = "pop"
    /\ "tests" \in DOMAIN heap[migrated_config]
    /\ heap' = [heap EXCEPT ![migrated_config] = Without(@, "tests")]
    /\ pc' = "new"
    /\ UNCHANGED <<ALLOW_LEGACY_CONFIG, cls, input, migrated_config, todo, idx, values,
                   errors, warnings, events, given, result>>

\* migrated_config["acceptance_tests"] = {}
MigrateNew ==
    /\ pc = "new"
    /\ heap' = [heap EXCEPT ![migrated_config] = With(@, "acceptance_tests", VDict(EmptyDict))]
    /\ pc' = "items"
    /\ UNCHANGED <<ALLOW_LEGACY_CONFIG, cls, input, migrated_config, todo, idx, values,
                   errors, warnings, events, given, result>>

\* legacy_config["tests"].items() can be evaluated
HasItems(legacy_config) ==
    "tests" \in DOMAIN legacy_config /\ Kind(legacy_config["tests"]) = "dict"

\* for ... in legacy_config["tests"].items(): the iterator
MigrateItems ==
    /\ pc = "items"
    /\ HasItems(heap[1])
    /\ todo' = DOMAIN Payload(heap[1]["tests"])
    /\ pc' = "loop"
    /\ UNCHANGED <<ALLOW_LEGACY_CONFIG, cls, heap, input, migrated_config, idx, values,
                   errors, warnings, events, given, result>>

\* fault: the loop storing the list itself
WrappedBare(test_configs) == test_configs

\* the value the loop stores for a category
Wrapped(test_configs) == VDict([tests |-> test_configs])

\* migrated_config["acceptance_tests"][test_name] = {"tests": test_configs}
MigrateItem ==
    /\ pc = "loop"
    /\ \E test_name \in todo :
          LET test_configs == Payload(heap[1]["tests"])[test_name]
              acceptance_tests == Payload(heap[migrated_config]["acceptance_tests"])
          IN  /\ heap' = [heap EXCEPT ![migrated_config] =
                            With(@, "acceptance_tests",
                                 VDict(With(acceptance_tests, test_name, Wrapped(test_configs))))]
              /\ todo' = todo \ {test_name}
    /\ UNCHANGED <<ALLOW_LEGACY_CONFIG, cls, input, migrated_config, pc, idx, values,
                   errors, warnings, events, given, result>>

\* return migrated_config, which legacy_format_adapter returns in turn
MigrateReturn ==
    /\ pc = "loop"
    /\ todo = {}
    /\ input' = migrated_config
    /\ pc' = "fields"
    /\ UNCHANGED <<ALLOW_LEGACY_CONFIG, cls, heap, migrated_config, todo, idx, values,
                   errors, warnings, events, given, result>>

\* the migration raises (a KeyError for a missing key, an AttributeError for a
\* "tests" without items()): the construction ends with that exception
MigrateRaises ==
    /\ \/ pc = "pop" /\ "tests" \notin DOMAIN heap[migrated_config]
       \/ pc = "items" /\ ~HasItems(heap[1])
    /\ pc' = "raised"
    /\ UNCHANGED <<ALLOW_LEGACY_CONFIG, cls, heap, input, migrated_config, todo, idx,
                   values, errors, warnings, events, given, result>>

---------------------------------------------------------------------------
(* validate_model and __init__, for every class *)

\* the loop over the fields, one field a step
ValidateNextField ==
    /\ pc = "fields"
    /\ idx <= Len(Fields(cls))
    /\ LET st == StepField(cls, Fields(cls)[idx], heap[input],
                           [values |-> values, errors |-> errors])
       IN  values' = st.values /\ errors' = st.errors
    /\ idx' = idx + 1
    /\ events' = Append(events, Fields(cls)[idx].name)
    /\ UNCHANGED <<ALLOW_LEGACY_CONFIG, cls, heap, input, migrated_config, todo, pc,
                   warnings, given, result>>

\* after the loop: the extra fields
CheckExtra ==
    /\ pc = "fields"
    /\ idx > Len(Fields(cls))
    /\ errors' = errors \cup ExtraErrors(cls, heap[input])
    /\ pc' = "init"
    /\ UNCHANGED <<ALLOW_LEGACY_CONFIG, cls, heap, input, migrated_config, todo, idx,
                   values, warnings, events, given, result>>

\* __init__: no error, the object is set up
Construct ==
    /\ pc = "init"
    /\ errors = {}
    /\ result' = VObj(cls, values)
    /\ pc' = "validated"
    /\ UNCHANGED <<ALLOW_LEGACY_CONFIG, cls, heap, input, migrated_config, todo, idx,
                   values, errors, warnings, events, given>>

\* __init__: raise the ValidationError
RaiseValidationError ==
    /\ pc = "init"
    /\ errors # {}
    /\ pc' = "failed"
    /\ UNCHANGED <<ALLOW_LEGACY_CONFIG, cls, heap, input, migrated_config, todo, idx,
                   values, errors, warnings, events, given, result>>

---------------------------------------------------------------------------
(* The documents the constructions are given *)

MaxTests == 2
MaxLen == 4

Absent == <<"absent">>

\* the dict of the keys of opts that are not Absent
MkDict(opts) == [k \in {x \in DOMAIN opts : opts[x] # Absent} |-> opts[k]]

\* the sequences over S of length at most n
SeqsUpTo(S, n) == UNION {[1..m -> S] : m \in 0..n}

s_a == <<"a">>
s_img == <<"i", "m", "g">>
s_reason == <<"w", "h", "y">>
s_medium == <<"m", "e", "d", "i", "u", "m">>

\* entries every category accepts, and one no category accepts
ValidEntries == {VDict(EmptyDict), VDict([config_path |-> VStr(s_a)])}
UnknownKeyEntry == VDict([bogus |-> VInt(1)])

\* entries of single categories
SpecEntryBadNested == VDict([backward_compatibility_tests_config |-> VDict([bogus |-> VInt(1)])])
BasicReadEntryGood ==
    VDict([expect_records |-> VDict([path |-> VStr(s_a), extra_fields |-> VBool(TRUE),
                                     exact_order |-> VBool(TRUE), extra_records |-> VBool(FALSE)])])
BasicReadEntryBad ==
    VDict([expect_records |-> VDict([path |-> VStr(s_a), extra_fields |-> VBool(TRUE)])])
BasicReadEntryBadNested ==
    VDict([expect_records |-> VDict([path |-> VStr(s_a), bogus |-> VInt(1)])])

\* GenericTestConfig documents
WrapperDocs(entries, n) ==
    {MkDict([bypass_reason |-> b, tests |-> ts, bogus |-> x]) :
        b \in {Absent, NoneV, VStr(<<>>), VStr(s_reason)},
        ts \in {Absent, NoneV} \cup {VList(q) : q \in SeqsUpTo(entries, n)},
        x \in {Absent, VInt(1)}}

\* ExpectedRecordsConfig documents
Flag == {Absent, VBool(TRUE), VBool(FALSE)}
ExpectedDocs ==
    {MkDict([path |-> p, extra_fields |-> ef, exact_order |-> eo, extra_records |-> er,
             bogus |-> x]) :
        p \in {Absent, VStr(s_a)}, ef \in Flag, eo \in Flag, er \in Flag,
        x \in {Absent, VInt(1)}}

\* version strings: every string of up to MaxLen of these characters, and the
\* two of the documentation
VersionChars == {"0", "1", ".", "-", "v"}
s_1_2_3_rc1 == <<"1", ".", "2", ".", "3", "-", "r", "c", "1">>
s_v1_2 == <<"v", "1", ".", "2">>
Versions == SeqsUpTo(VersionChars, MaxLen) \cup {s_1_2_3_rc1, s_v1_2, s_latest}

\* BackwardCompatibilityTestsConfig documents
VersionDocs ==
    UNION {{MkDict([previous_connector_version |-> a, disable_for_version |-> b]) :
               a \in {Absent, VStr(s)}, b \in {Absent, NoneV, VStr(s)}} : s \in Versions}

\* legacy "tests" mappings: category -> list of entries
LegacyTests ==
    {MkDict([spec |-> a, basic_read |-> b, bogus_category |-> c]) :
        a \in {Absent} \cup {VList(q) : q \in SeqsUpTo({VDict(EmptyDict), UnknownKeyEntry}, MaxTests)},
        b \in {Absent} \cup {VList(q) : q \in SeqsUpTo({BasicReadEntryGood, BasicReadEntryBad}, 1)},
        c \in {Absent, VList(<<>>)}}

\* current "acceptance_tests" mappings: category -> wrapper document
CurrentTests ==
    {MkDict([spec |-> a, basic_read |-> b, bogus_category |-> c]) :
        a \in {Absent} \cup {VDict(w) : w \in WrapperDocs({VDict(EmptyDict), UnknownKeyEntry, SpecEntryBadNested}, 1)},
        b \in {Absent, VDict([tests |-> VList(<<BasicReadEntryBadNested>>)])},
        c \in {Absent, VDict(EmptyDict)}}

\* Config documents: the legacy ones (with and without an acceptance_tests
\* beside the tests), and the current ones
LegacyDocs ==
    {MkDict([connector_image |-> ci, bogus |-> x, test_strictness_level |-> o[1],
             base_path |-> o[2], tests |-> ts, acceptance_tests |-> at]) :
        ci \in {Absent, VStr(s_img)},
        x \in {Absent, VInt(1)},
        o \in {<<Absent, Absent>>, <<VStr(s_medium), Absent>>, <<VStr(s_high), VStr(s_a)>>},
        ts \in {NoneV} \cup {VDict(m) : m \in LegacyTests},
        at \in {Absent,
                VDict([connection |-> VDict([bypass_reason |-> VStr(s_reason)])]),
                VDict([bogus_category |-> VDict(EmptyDict)])}}

CurrentDocs ==
    {MkDict([connector_image |-> ci, bogus |-> x, test_strictness_level |-> sl,
             acceptance_tests |-> at]) :
        ci \in {Absent, VStr(s_img)},
        x \in {Absent, VInt(1)},
        sl \in {Absent, VStr(s_high), VStr(s_medium)},
        at \in {Absent} \cup {VDict(m) : m \in CurrentTests}}

---------------------------------------------------------------------------
(* The specifications *)

\* the state as a construction of class c from document d begins
Begin(c, d, at) ==
    /\ cls = c
    /\ heap = <<d, EmptyDict>>
    /\ given = d
    /\ input = IF at = "adapter" THEN 0 ELSE 1
    /\ migrated_config = 0
    /\ todo = {}
    /\ pc = at
    /\ idx = 1
    /\ values = EmptyDict
    /\ errors = {}
    /\ warnings = 0
    /\ events = <<>>
    /\ result = NoneV

\* Config(**document), with the toggle either way
Init ==
    /\ ALLOW_LEGACY_CONFIG \in BOOLEAN
    /\ \E d \in LegacyDocs \cup CurrentDocs : Begin("Config", d, "adapter")

Migrate ==
    \/ MigrateDeepcopy
    \/ MigratePop
    \/ MigrateNew
    \/ MigrateItems
    \/ MigrateItem
    \/ MigrateReturn
    \/ MigrateRaises

ValidateModelSteps ==
    \/ ValidateNextField
    \/ CheckExtra
    \/ Construct
    \/ RaiseValidationError

Next ==
    \/ AdapterLegacy
    \/ AdapterReturnsValues
    \/ LogWarn
    \/ Migrate
    \/ ValidateModelSteps

Spec == Init /\ [][Next]_vars

\* GenericTestConfig[T](**document), for every category
InitGeneric ==
    /\ ALLOW_LEGACY_CONFIG = TRUE
    /\ \E cat \in Categories :
          \E d \in WrapperDocs(ValidEntries \cup {UnknownKeyEntry}, MaxTests) :
              Begin(GenericTestConfig(TestConfigT(cat)), d, "fields")

SpecGeneric == InitGeneric /\ [][ValidateModelSteps]_vars

\* ExpectedRecordsConfig(**document)
InitExpected ==
    /\ ALLOW_LEGACY_CONFIG = TRUE
    /\ \E d \in ExpectedDocs : Begin("ExpectedRecordsConfig", d, "fields")

SpecExpected == InitExpected /\ [][ValidateModelSteps]_vars

\* BackwardCompatibilityTestsConfig(**document)
InitVersions ==
    /\ ALLOW_LEGACY_CONFIG = TRUE
    /\ \E d \in VersionDocs : Begin("BackwardCompatibilityTestsConfig", d, "fields")

SpecVersions == InitVersions /\ [][ValidateModelSteps]_vars

---------------------------------------------------------------------------
(* Properties *)

Finished == pc \in {"validated", "failed", "raised"}
Has(d, k) == k \in DOMAIN d

\* the flag of an ExpectedRecordsConfig document, or its default
FlagOf(d, k, default) == IF Has(d, k) THEN Payload(d[k]) ELSE default

BypassSupplied == Has(given, "bypass_reason") /\ Kind(given["bypass_reason"]) = "str"
TestsNonEmpty ==
    Has(given, "tests") /\ Kind(given["tests"]) = "list" /\ Len(Payload(given["tests"])) > 0

\* the wrapper documents C1 speaks of: bypass_reason absent or a string, tests
\* absent or a list of valid entries
C1_Domain ==
    /\ IsGeneric(cls)
    /\ Has(given, "bypass_reason") => Kind(given["bypass_reason"]) = "str"
    /\ Has(given, "tests") =>
          /\ Kind(given["tests"]) = "list"
          /\ \A i \in 1..Len(Payload(given["tests"])) :
                Validate(T_model(ParamOf(cls)), Payload(given["tests"])[i]).ok

\* C1: a Generic Test Wrapper of any category is rejected exactly when a
\* non-empty list of tests and a bypass reason (any string) are both supplied
C1_BypassAndTestsRejected ==
    (C1_Domain /\ Finished) => (pc = "failed" <=> (TestsNonEmpty /\ BypassSupplied))

\* the ExpectedRecordsConfig documents C2 speaks of: a valid path, and each
\* flag a boolean or left out
C2_Domain ==
    /\ cls = "ExpectedRecordsConfig"
    /\ DOMAIN given \subseteq FieldNames("ExpectedRecordsConfig")
    /\ Has(given, "path") /\ path_validator(given["path"]).ok

\* C2: ExpectedRecordsConfig is rejected exactly when extra_fields is true and
\* either exact_order is false or extra_records is true (defaults: false,
\* false, true)
C2_ExpectedRecordsRules ==
    (C2_Domain /\ Finished) =>
        (pc = "failed" <=>
            /\ FlagOf(given, "extra_fields", FALSE)
            /\ \/ ~FlagOf(given, "exact_order", FALSE)
               \/ FlagOf(given, "extra_records", TRUE))

\* an ExpectedRecordsConfig with extra_fields, exact_order and no extra_records
\* has been constructed
C2_Witness ==
    /\ C2_Domain
    /\ pc = "validated"
    /\ Has(given, "extra_fields") /\ FlagOf(given, "extra_fields", FALSE)
    /\ FlagOf(given, "exact_order", FALSE)
    /\ ~FlagOf(given, "extra_records", TRUE)
    /\ ObjFields(result)["extra_records"] = VBool(FALSE)

\* the migration has returned its document to the field validation
Migrated == migrated_config # 0 /\ input # 0

\* the mapping under the legacy key
LegacyMapping == Payload(given["tests"])

\* what the migration is to build from the legacy mapping
ExpectedAcceptanceTests ==
    VDict([c \in DOMAIN LegacyMapping |-> VDict([tests |-> LegacyMapping[c]])])

\* C3, as claimed: the migrated document has no tests key, its acceptance_tests
\* maps exactly the legacy categories to {"tests": list}, and every other
\* top-level key of the input is carried over unchanged
C3_MigrationCarriesAllOtherKeys ==
    Migrated =>
        /\ ~Has(heap[input], "tests")
        /\ heap[input]["acceptance_tests"] = ExpectedAcceptanceTests
        /\ \A k \in DOMAIN given \ {"tests"} :
              Has(heap[input], k) /\ heap[input][k] = given[k]

\* C3, amended: as claimed, but for every other top-level key except
\* acceptance_tests, which the migration replaces
C3_MigrationShape ==
    Migrated =>
        /\ DOMAIN heap[input] = (DOMAIN given \ {"tests"}) \cup {"acceptance_tests"}
        /\ heap[input]["acceptance_tests"] = ExpectedAcceptanceTests
        /\ \A k \in DOMAIN given \ {"tests", "acceptance_tests"} :
              heap[input][k] = given[k]

\* a document with two categories and two other keys has been migrated
C3_Witness ==
    /\ Migrated
    /\ Cardinality(DOMAIN LegacyMapping) >= 2
    /\ {"connector_image", "bogus"} \subseteq DOMAIN heap[input]
    /\ \E c \in DOMAIN LegacyMapping : Len(Payload(LegacyMapping[c])) = MaxTests

\* every entry listed under the legacy key is valid for its category's type
EntriesValid ==
    \A c \in DOMAIN LegacyMapping \cap Categories :
        \A i \in 1..Len(Payload(LegacyMapping[c])) :
            Validate(T_model(TestConfigT(c)), Payload(LegacyMapping[c])[i]).ok

\* the rest of a legacy document is valid for Config
RestValid ==
    /\ DOMAIN given \subseteq FieldNames("Config") \cup {"tests"}
    /\ DOMAIN LegacyMapping \subseteq Categories
    /\ Has(given, "connector_image") /\ Validate(T_str, given["connector_image"]).ok
    /\ Has(given, "base_path") => Validate(T_opt(T_str), given["base_path"]).ok
    /\ Has(given, "test_strictness_level") =>
          Validate(T_opt(T_enum({s_high, s_low})), given["test_strictness_level"]).ok

\* a legacy document (its tests a mapping to lists) was constructed from, with
\* the toggle enabled
LegacyConstruction ==
    /\ cls = "Config"
    /\ ALLOW_LEGACY_CONFIG
    /\ HasItems(given)
    /\ \A c \in DOMAIN LegacyMapping : Kind(LegacyMapping[c]) = "list"
    /\ pc \in {"validated", "failed"}

\* C4, as claimed: the migrated document validates iff every entry is valid
C4_ValidIffEntriesValid ==
    LegacyConstruction => (pc = "validated" <=> EntriesValid)

\* C4, amended: the migrated document validates iff every entry is valid, every
\* category named is one of the six, and the rest of the document is valid
\* (acceptance_tests aside, which is replaced)
C4_ValidIffEntriesAndRestValid ==
    LegacyConstruction => (pc = "validated" <=> (EntriesValid /\ RestValid))

\* a legacy document with an entry in each of two categories was constructed from
C4_Witness ==
    /\ LegacyConstruction
    /\ pc = "validated"
    /\ \A c \in {"spec", "basic_read"} :
          Has(LegacyMapping, c) /\ Len(Payload(LegacyMapping[c])) > 0

RECURSIVE HasUnknownKey(_, _)
\* value v, read as type t, holds a key that is no field of its class
HasUnknownKey(t, v) ==
    CASE t[1] = "opt" -> HasUnknownKey(t[2], v)
      [] t[1] = "list" /\ Kind(v) = "list" ->
            \E i \in 1..Len(Payload(v)) : HasUnknownKey(t[2], Payload(v)[i])
      [] t[1] = "mapping" /\ Kind(v) = "dict" ->
            \E k \in DOMAIN Payload(v) : HasUnknownKey(t[2], Payload(v)[k])
      [] t[1] = "model" /\ Kind(v) = "dict" ->
            \/ DOMAIN Payload(v) \ FieldNames(t[2]) # {}
            \/ \E i \in 1..Len(Fields(t[2])) :
                  /\ Has(Payload(v), Fields(t[2])[i].name)
                  /\ HasUnknownKey(Fields(t[2])[i].type, Payload(v)[Fields(t[2])[i].name])
      [] OTHER -> FALSE

\* C5: no Root Configuration is constructed from a document with an unknown
\* key at any level
C5_UnknownKeyRejected ==
    (cls = "Config" /\ pc = "validated") =>
        ~HasUnknownKey(T_model("Config"), VDict(heap[input]))

\* a legacy-shaped document: a tests key and no acceptance_tests key
LegacyShaped == Has(given, "tests") /\ ~Has(given, "acceptance_tests")

\* C6: with the toggle disabled a legacy-shaped document is validated as it
\* is, without migration or warning, and fails on its tests key and on the
\* missing acceptance_tests
C6_DisabledToggleFails ==
    (cls = "Config" /\ ~ALLOW_LEGACY_CONFIG /\ LegacyShaped) =>
        /\ warnings = 0 /\ migrated_config = 0
        /\ input \in {0, 1} /\ heap[1] = given
        /\ pc \in {"adapter", "fields", "init", "failed"}
        /\ result = NoneV
        /\ pc = "failed" => {"tests", "acceptance_tests"} \subseteq errors

\* with the toggle disabled, a legacy-shaped document that is otherwise valid
\* has failed
C6_Witness ==
    /\ cls = "Config" /\ ~ALLOW_LEGACY_CONFIG /\ LegacyShaped
    /\ HasItems(given) /\ EntriesValid /\ RestValid
    /\ pc = "failed"

\* the whole grammar major[.minor[.patch[-prerelease]]]: the ends of its matches
GrammarEnds(s) ==
    UNION {{p} \cup UNION {{m} \cup UNION {{a} \cup PreEnds(s, a) :
                                             a \in DotNumEnds(s, m)} :
                           m \in DotNumEnds(s, p)} :
           p \in NumEnds(s, 0)}

MatchesGrammar(s) == Len(s) \in GrammarEnds(s)

\* C7: a BackwardCompatibilityTestsConfig is constructed only from version
\* strings that are wholly of the form major[.minor[.patch[-prerelease]]]
C7_VersionsMatchGrammar ==
    (cls = "BackwardCompatibilityTestsConfig" /\ pc = "validated") =>
        \A k \in {"previous_connector_version", "disable_for_version"} :
            (Has(given, k) /\ Kind(given[k]) = "str") => MatchesGrammar(Payload(given[k]))

\* the position of the first event e of the history (0: none)
First(e) ==
    IF \E i \in 1..Len(events) : events[i] = e
    THEN CHOOSE i \in 1..Len(events) : events[i] = e /\ \A j \in 1..(i - 1) : events[j] # e
    ELSE 0

\* C8: the adapter's legacy check comes before any field validation, and so do
\* the warning and the migration that follows it; a migration always has its
\* warning before it; a construction that has warned fails only on a
\* migration or validation error; and there is a Root Configuration only when
\* every field is validated without error
C8_AdapterFirstAllOrNothing ==
    cls = "Config" =>
        /\ events # <<>> => events[1] = "adapter"
        /\ \A i \in 1..Len(events) :
              /\ events[i] = "adapter" => i = 1
              /\ events[i] = "warn" => i = 2
              /\ events[i] = "migrate" => i = 3 /\ events[2] = "warn" /\ warnings = 1
              /\ events[i] \in FieldNames("Config") =>
                    /\ input # 0
                    /\ (ALLOW_LEGACY_CONFIG /\ is_legacy(given)) => First("migrate") = 3
        /\ migrated_config # 0 => warnings = 1 /\ First("migrate") = 3
        /\ pc = "failed" => errors # {}
        /\ pc = "raised" => ~HasItems(given)
        /\ result # NoneV <=> pc = "validated"
        /\ pc = "validated" =>
              /\ errors = {}
              /\ result = VObj("Config", values)
              /\ DOMAIN values = FieldNames("Config")
              /\ result = ValidateModel("Config", heap[input]).v

\* a Root Configuration has been constructed after a warning and a migration
C8_Witness ==
    /\ cls = "Config"
    /\ pc = "validated"
    /\ warnings = 1
    /\ First("migrate") = 3

\* C9: with the toggle enabled a document is taken for legacy iff it has a
\* top-level tests key; when it has an acceptance_tests key as well, the
\* migrated acceptance_tests is built from the tests mapping alone, and so is
\* the Root Configuration
C9_LegacyIffTestsKey ==
    (cls = "Config" /\ ALLOW_LEGACY_CONFIG /\ pc # "adapter") =>
        /\ (pc = "warn" \/ warnings > 0) <=> Has(given, "tests")
        /\ (Migrated /\ Has(given, "acceptance_tests")) =>
              /\ heap[input]["acceptance_tests"] = ExpectedAcceptanceTests
              /\ pc = "validated" =>
                    result = ValidateModel("Config",
                                 With(Without(Without(given, "acceptance_tests"), "tests"),
                                      "acceptance_tests", ExpectedAcceptanceTests)).v

\* a Root Configuration has been constructed from a document with both keys,
\* whose own acceptance_tests would not validate
C9_Witness ==
    /\ cls = "Config" /\ ALLOW_LEGACY_CONFIG
    /\ Has(given, "tests") /\ Has(given, "acceptance_tests")
    /\ Has(Payload(given["acceptance_tests"]), "bogus_category")
    /\ pc = "validated"
    /\ ObjFields(ObjFields(result)["acceptance_tests"])["spec"] # NoneV

\* C10: the migration leaves its argument as it was given, and its result is
\* another object
C10_ArgumentUnchanged ==
    cls = "Config" =>
        /\ heap[1] = given
        /\ migrated_config # 0 => migrated_config # 1

\* the migration has returned a document that differs from its argument, which
\* still has its tests key and no acceptance_tests key
C10_Witness ==
    /\ Migrated
    /\ pc = "fields"
    /\ heap[input] # heap[1]
    /\ Has(heap[1], "tests") /\ ~Has(heap[1], "acceptance_tests")
    /\ LegacyMapping # EmptyDict

===========================================================================
